---------------------------- MODULE Spec2Model ----------------------------
(***************************************************************************)
(* Hexcells level generator of SixCells (generator.py): the generate loop, *)
(* create_pattern and its steps, the solvability check (Scene.prepare and  *)
(* Scene.solve_complete over the two solver tiers) and minimize_clues.     *)
(*                                                                         *)
(* The grid is the 33x33 array of generator.py:225, kept as a function     *)
(* whose domain is the set of occupied positions <<x, y>>: a position      *)
(* outside the domain holds None.  A HexCell is a record with tag "cell";  *)
(* a ColumnHint is an object with identity (two of them can come to share  *)
(* a position), so the grid and column_hints hold hint ids and the fields  *)
(* of the objects live in the variable hints.                              *)
(***************************************************************************)
EXTENDS Integers, Sequences, FiniteSets, TLC

\* ------------------------------------------------------------------ bounds
MaxCols == 2
MaxHeight == 4
MaxArea == 4
MinimizeHeight == 2
MaxAttempts == 2
MaxRemoved == 1
GroupSpan == 3
PatternHeight == 5
SmallHeight == 3
PatternRemoved == 1
CluesHeight == 4
ExhaustRemoved == 4
NudgeHeight == 12
LineWidth == 3
LineRows == 3
MaxOccupied == 3
RevealHeight == 4
DenseReveal == 2

\* --------------------------------------------------------------- constants
GridSize == 33
RevealDensity == 7

None == 0

VARIABLES
    cfg,            \* the LevelGenerator's configuration (generator.py:372-383)
    pc,             \* position of the pipeline
    attempt,        \* number of create_pattern calls made by generate
    grid,           \* level.grid
    hints,          \* the ColumnHint objects created so far, by id
    column_hints,   \* level.column_hints: hint ids, None for a removed slot
    removenum,      \* discards left in remove_random_column_hint
    clues,          \* the shuffled, truncated clue list of minimize_clues
    ci,             \* index of the clue under test
    backup,         \* what remove_clue returned for that clue
    scene,          \* the Scene loaded from the level string
    display,        \* Cell.display per scene cell
    guess,          \* Cell.guess per scene cell
    remaining,      \* Scene.remaining
    solving,        \* Scene.solving
    caller,         \* who called is_solvable
    result,         \* what is_solvable / generate returned
    positions,      \* the argument of a call of all_grouped
    is_grouped,     \* what that call returned
    line_call,      \* the arguments and results of calls of get_line_cells
    original        \* the level as minimize_clues received it (empty before)

vars == <<cfg, pc, attempt, grid, hints, column_hints, removenum, clues, ci,
          backup, scene, display, guess, remaining, solving, caller, result,
          positions, is_grouped, line_call, original>>

callVars == <<positions, is_grouped, line_call>>
groupVars == <<callVars, original>>

\* ---------------------------------------------------------------- helpers
InBounds(x, y) == 0 <= x /\ x < GridSize /\ 0 <= y /\ y < GridSize

Empty == [p \in {} |-> 0]

IsNone(g, p) == p \notin DOMAIN g
IsHexCell(g, p) == p \in DOMAIN g /\ g[p].tag = "cell"
IsColumnHint(g, p) == p \in DOMAIN g /\ g[p].tag = "hint"

Put(g, p, v) == [q \in (DOMAIN g) \cup {p} |-> IF q = p THEN v ELSE g[q]]
Clear(g, p) == [q \in (DOMAIN g) \ {p} |-> g[q]]
ClearAll(g, ps) == [q \in (DOMAIN g) \ ps |-> g[q]]

Range(s) == {s[i] : i \in 1..Len(s)}

Max2(a, b) == IF a >= b THEN a ELSE b
Min2(a, b) == IF a <= b THEN a ELSE b

\* Row-major order of the nested loops "for y ... for x ...".
RowKey(p) == p[2] * GridSize + p[1]

RECURSIVE RowMajor(_)
RowMajor(S) ==
    IF S = {} THEN <<>>
    ELSE LET m == CHOOSE p \in S : \A q \in S : RowKey(p) <= RowKey(q)
         IN <<m>> \o RowMajor(S \ {m})


\* The outcomes of "random.random() < p" for a probability of p percent:
\* random() lies in [0, 1), so TRUE needs p > 0 and FALSE needs p < 100.
Draw(p) == {b \in BOOLEAN : (b => p > 0) /\ (~b => p < 100)}

\* ------------------------------------------------------- GeneratedLevel
direction_deltas(direction) ==
    CASE direction = "\\" -> <<1, 1>>
      [] direction = "|" -> <<0, 2>>
      [] direction = "/" -> <<-1, 1>>

get_neighbors(x, y) ==
    LET offsets == << <<0, -2>>, <<1, -1>>, <<1, 1>>, <<0, 2>>, <<-1, 1>>, <<-1, -1>> >>
        all == [i \in 1..6 |-> <<x + offsets[i][1], y + offsets[i][2]>>]
        ok(p) == InBounds(p[1], p[2])
    IN SelectSeq(all, ok)

are_neighbors(pos1, pos2) == pos2 \in Range(get_neighbors(pos1[1], pos1[2]))

\* One sweep of "for pos in positions - grouped": todo is the snapshot
\* positions - grouped taken when the for loop starts, grouped grows during it.
RECURSIVE GroupSweep(_, _)
GroupSweep(todo, grouped) ==
    IF todo = {} THEN grouped
    ELSE LET pos == CHOOSE p \in todo : \A q \in todo : RowKey(p) <= RowKey(q)
         IN GroupSweep(todo \ {pos},
                       IF \E gp \in grouped : are_neighbors(pos, gp)
                       THEN grouped \cup {pos} ELSE grouped)

\* A variant that sweeps once and does not repeat until nothing is added.
GroupLoop_one_sweep(ps, grouped) == GroupSweep(ps \ grouped, grouped)

RECURSIVE GroupLoop(_, _)
GroupLoop(ps, grouped) ==
    LET after == GroupSweep(ps \ grouped, grouped)
    IN IF after = grouped THEN grouped ELSE GroupLoop(ps, after)

\* A variant that takes every set of at most two positions for grouped.
all_grouped_small(ps) ==
    IF Cardinality(ps) <= 2 THEN TRUE
    ELSE LET first == CHOOSE p \in ps : \A q \in ps : RowKey(p) <= RowKey(q)
         IN Cardinality(GroupLoop(ps, {first})) = Cardinality(ps)

all_grouped(ps) ==
    IF ps = {} THEN TRUE
    ELSE LET first == CHOOSE p \in ps : \A q \in ps : RowKey(p) <= RowKey(q)
             grouped == GroupLoop(ps, {first})
         IN Cardinality(grouped) = Cardinality(ps)

\* A variant whose walk begins one step after the start position.
get_line_cells_ahead(g, x, y, direction) ==
    LET delta == direction_deltas(direction)
        walk == [k \in 1..GridSize |-> <<x + k * delta[1], y + k * delta[2]>>]
        hit(p) == InBounds(p[1], p[2]) /\ ~IsNone(g, p)
    IN IF InBounds(x, y) THEN SelectSeq(walk, hit) ELSE <<>>

\* The walk "while 0 <= cx < 33 and 0 <= cy < 33" ends at the first position
\* outside the grid; from a start inside it no later position is inside again
\* after one that is outside, and from a start outside it visits nothing.
get_line_cells(g, x, y, direction) ==
    LET delta == direction_deltas(direction)
        walk == [k \in 1..GridSize |-> <<x + (k - 1) * delta[1], y + (k - 1) * delta[2]>>]
        hit(p) == InBounds(p[1], p[2]) /\ ~IsNone(g, p)
    IN IF InBounds(x, y) THEN SelectSeq(walk, hit) ELSE <<>>

get_hex_cells_in_line(g, x, y, direction) ==
    LET cell(p) == IsHexCell(g, p)
    IN SelectSeq(get_line_cells(g, x, y, direction), cell)

HexCell(is_blue, info_type) ==
    [tag |-> "cell", is_blue |-> is_blue, revealed |-> FALSE, info_type |-> info_type]

ColumnHint(x, y, direction) ==
    [x |-> x, y |-> y, direction |-> direction, consecutive |-> "None"]

HintRef(id) == [tag |-> "hint", id |-> id]

Cells(g) == {p \in DOMAIN g : g[p].tag = "cell"}

\* A variant that takes every neighbouring cell, blue or not.
BlueNeighbors_any(g, x, y) ==
    {p \in Range(get_neighbors(x, y)) : IsHexCell(g, p)}

BlueNeighbors(g, x, y) ==
    {p \in Range(get_neighbors(x, y)) : IsHexCell(g, p) /\ g[p].is_blue}

\* A variant with 'c' and 'n' exchanged.
set_black_cell_info_types_swapped(g) ==
    [p \in DOMAIN g |->
        IF g[p].tag # "cell" \/ g[p].is_blue \/ g[p].info_type = "."
        THEN g[p]
        ELSE LET blue_neighbors == BlueNeighbors(g, p[1], p[2])
             IN IF Cardinality(blue_neighbors) > 1
                THEN [g[p] EXCEPT !.info_type =
                        IF all_grouped(blue_neighbors) THEN "n" ELSE "c"]
                ELSE g[p]]

set_black_cell_info_types(g) ==
    [p \in DOMAIN g |->
        IF g[p].tag # "cell" \/ g[p].is_blue \/ g[p].info_type = "."
        THEN g[p]
        ELSE LET blue_neighbors == BlueNeighbors(g, p[1], p[2])
             IN IF Cardinality(blue_neighbors) > 1
                THEN [g[p] EXCEPT !.info_type =
                        IF all_grouped(blue_neighbors) THEN "c" ELSE "n"]
                ELSE g[p]]

\* ------------------------------------------------------- LevelGenerator
\* A level is the record [grid, hints, column_hints].
Level(g, hs, ch) == [grid |-> g, hints |-> hs, column_hints |-> ch]

\* A variant of the visited positions without the shift of the odd rows.
Eligible_unstaggered(c) ==
    LET center == GridSize \div 2
        radius == Min2(c.width, c.height) \div 2
        at(tx, ty) == <<tx + ((0 - c.width) \div 2) + GridSize \div 2,
                        ty + ((0 - c.height) \div 2) + GridSize \div 2>>
        radius_check(p) ==
            IF c.constrain_by_radius
            THEN (p[1] - center) * (p[1] - center) + (p[2] - center) * (p[2] - center)
                     <= radius * radius
            ELSE TRUE
    IN {p \in {at(tx, ty) : tx \in {t \in 0..(c.width - 1) : t % 2 = 0},
                            ty \in 0..(c.height - 1)} : radius_check(p)}

\* The positions create_pattern visits (generator.py:453-466).  Python's
\* -width // 2 is the floor of -width / 2.
Eligible(c) ==
    LET center == GridSize \div 2
        radius == Min2(c.width, c.height) \div 2
        at(tx, ty) ==
            LET x == tx + ((0 - c.width) \div 2) + GridSize \div 2
                y == ty + ((0 - c.height) \div 2) + GridSize \div 2
            IN <<x + (y % 2), y>>
        radius_check(p) ==
            IF c.constrain_by_radius
            THEN (p[1] - center) * (p[1] - center) + (p[2] - center) * (p[2] - center)
                     <= radius * radius
            ELSE TRUE
    IN {p \in {at(tx, ty) : tx \in {t \in 0..(c.width - 1) : t % 2 = 0},
                            ty \in 0..(c.height - 1)} : radius_check(p)}

\* The outcomes of the draws for one visited position: no cell, a black cell
\* ('+'), a blue cell with '+' or with '.'.
SpawnKinds(c) ==
    {k \in {"none", "o+", "x+", "x."} :
        /\ (k = "none") \in {~b : b \in Draw(c.cell_spawn_chance)}
        /\ k = "o+" => FALSE \in Draw(c.blue_density)
        /\ k \in {"x+", "x."} => TRUE \in Draw(c.blue_density)
        /\ k = "x+" => c.blue_info_weight_plus > 0
        /\ k = "x." => c.blue_info_weight_none > 0}

SpawnGrid(kinds) ==
    [p \in {q \in DOMAIN kinds : kinds[q] # "none"} |->
        HexCell(kinds[p] # "o+", IF kinds[p] = "x." THEN "." ELSE "+")]

\* all_cells of generator.py:481 and the number of cells to reveal.
NonBlue(g) == {p \in Cells(g) : ~g[p].is_blue}
num_to_reveal(c, g) == Max2(1, Cardinality(NonBlue(g)) \div c.reveal_density)

RevealCells(g, chosen) ==
    [p \in DOMAIN g |-> IF p \in chosen THEN [g[p] EXCEPT !.revealed = TRUE] ELSE g[p]]

\* add_column_hints: the three directions of one cell, in order.
HintDirections == << <<-1, -1, "\\">>, <<0, -2, "|">>, <<1, -1, "/">> >>

\* A variant that does not test whether the position is empty.
RECURSIVE AddHintsOfCell_overwrite(_, _, _)
AddHintsOfCell_overwrite(L, p, k) ==
    IF k > 3 THEN L
    ELSE LET hx == p[1] + HintDirections[k][1]
             hy == p[2] + HintDirections[k][2]
         IN IF InBounds(hx, hy)
            THEN LET id == Len(L.hints) + 1
                 IN AddHintsOfCell_overwrite(
                        Level(Put(L.grid, <<hx, hy>>, HintRef(id)),
                              Append(L.hints, ColumnHint(hx, hy, HintDirections[k][3])),
                              Append(L.column_hints, id)),
                        p, k + 1)
            ELSE AddHintsOfCell_overwrite(L, p, k + 1)

RECURSIVE AddHintsOfCell(_, _, _)
AddHintsOfCell(L, p, k) ==
    IF k > 3 THEN L
    ELSE LET hx == p[1] + HintDirections[k][1]
             hy == p[2] + HintDirections[k][2]
         IN IF InBounds(hx, hy) /\ IsNone(L.grid, <<hx, hy>>)
            THEN LET id == Len(L.hints) + 1
                 IN AddHintsOfCell(
                        Level(Put(L.grid, <<hx, hy>>, HintRef(id)),
                              Append(L.hints, ColumnHint(hx, hy, HintDirections[k][3])),
                              Append(L.column_hints, id)),
                        p, k + 1)
            ELSE AddHintsOfCell(L, p, k + 1)

\* attach is the set of cells for which "random.random() < column_hint_chance"
\* came out false.
RECURSIVE AddHintsScan(_, _, _)
AddHintsScan(L, cells, attach) ==
    IF cells = <<>> THEN L
    ELSE AddHintsScan(IF Head(cells) \in attach
                      THEN AddHintsOfCell(L, Head(cells), 1) ELSE L,
                      Tail(cells), attach)

add_column_hints(L, attach) == AddHintsScan(L, RowMajor(Cells(L.grid)), attach)

\* A variant that removes the hint and leaves its line alone.
DiscardHint_hint_only(L, id) ==
    LET keep(i) == i # id
    IN Level(Clear(L.grid, <<L.hints[id].x, L.hints[id].y>>),
             L.hints,
             SelectSeq(L.column_hints, keep))

\* One iteration of the loop of remove_random_column_hint with hint id chosen.
DiscardHint(L, id) ==
    LET hint == L.hints[id]
        line_cells == get_line_cells(L.grid, hint.x, hint.y, hint.direction)
        keep(i) == i # id
    IN Level(ClearAll(L.grid, Range(line_cells) \cup {<<hint.x, hint.y>>}),
             L.hints,
             SelectSeq(L.column_hints, keep))

\* A variant that never answers 'n'.
check_consecutive_together(line_cells, blue_cells, g) ==
    IF blue_cells = <<>> THEN "None" ELSE "c"

check_consecutive(line_cells, blue_cells, g) ==
    IF blue_cells = <<>> THEN "None"
    ELSE LET isblue(i) == IsHexCell(g, line_cells[i]) /\ g[line_cells[i]].is_blue
             idx == [i \in 1..Len(line_cells) |-> i]
             blue_indices == SelectSeq(idx, isblue)
         IN IF blue_indices = <<>> THEN "None"
            ELSE LET is_consecutive ==
                         \A i \in 1..(Len(blue_indices) - 1) :
                             blue_indices[i] + 1 = blue_indices[i + 1]
                 IN IF Len(blue_indices) > 1
                    THEN (IF is_consecutive THEN "c" ELSE "n")
                    ELSE "None"

\* A variant that steps once without looking at the target position.
Nudge_onto(g, hs, id, n) ==
    LET hint == hs[id]
        delta == direction_deltas(hint.direction)
        new_x == hint.x + delta[1]
        new_y == hint.y + delta[2]
    IN IF n = 0 \/ ~InBounds(new_x, new_y)
       THEN [grid |-> g, hints |-> hs, removed |-> FALSE]
       ELSE [grid |-> Put(Clear(g, <<hint.x, hint.y>>), <<new_x, new_y>>, HintRef(id)),
             hints |-> [hs EXCEPT ![id].x = new_x, ![id].y = new_y],
             removed |-> FALSE]

\* The nudge loop "for _ in range(3)" of recheck_hints for hint id, n tries left.
\* The result is [grid, hints, removed].
RECURSIVE Nudge(_, _, _, _)
Nudge(g, hs, id, n) ==
    LET hint == hs[id]
        delta == direction_deltas(hint.direction)
        new_x == hint.x + delta[1]
        new_y == hint.y + delta[2]
    IN IF n = 0 \/ ~InBounds(new_x, new_y)
       THEN [grid |-> g, hints |-> hs, removed |-> FALSE]
       ELSE IF IsNone(g, <<new_x, new_y>>)
       THEN Nudge(Put(Clear(g, <<hint.x, hint.y>>), <<new_x, new_y>>, HintRef(id)),
                  [hs EXCEPT ![id].x = new_x, ![id].y = new_y], id, n - 1)
       ELSE IF IsColumnHint(g, <<new_x, new_y>>)
       THEN [grid |-> Clear(g, <<hint.x, hint.y>>), hints |-> hs, removed |-> TRUE]
       ELSE [grid |-> g, hints |-> hs, removed |-> FALSE]

\* The body of "for hint in level.column_hints" for the i-th entry; gone is
\* hints_to_remove.
RecheckOne(g, hs, gone, id) ==
    LET hint == hs[id]
        hex_cells == get_hex_cells_in_line(g, hint.x, hint.y, hint.direction)
    IN IF Len(hex_cells) = 0
       THEN [grid |-> Clear(g, <<hint.x, hint.y>>), hints |-> hs, gone |-> gone \cup {id}]
       ELSE LET moved == Nudge(g, hs, id, 3)
            IN IF moved.removed
               THEN [grid |-> moved.grid, hints |-> moved.hints, gone |-> gone \cup {id}]
               ELSE LET isblue(p) == moved.grid[p].is_blue
                        blue_cells == SelectSeq(hex_cells, isblue)
                        consecutive ==
                            IF Len(blue_cells) <= 1 THEN "None"
                            ELSE check_consecutive(hex_cells, blue_cells, moved.grid)
                    IN [grid |-> moved.grid,
                        hints |-> [moved.hints EXCEPT ![id].consecutive = consecutive],
                        gone |-> gone]

RECURSIVE RecheckScan(_, _, _, _)
RecheckScan(g, hs, gone, todo) ==
    IF todo = <<>> THEN [grid |-> g, hints |-> hs, gone |-> gone]
    ELSE LET one == RecheckOne(g, hs, gone, Head(todo))
         IN RecheckScan(one.grid, one.hints, one.gone, Tail(todo))

\* A variant without the final removal from the list.
recheck_hints_keep_list(L) ==
    LET done == RecheckScan(L.grid, L.hints, {}, L.column_hints)
    IN Level(done.grid, done.hints, L.column_hints)

recheck_hints(L) ==
    LET done == RecheckScan(L.grid, L.hints, {}, L.column_hints)
        keep(i) == i \notin done.gone
    IN Level(done.grid, done.hints, SelectSeq(L.column_hints, keep))

\* ------------------------------------------------------------ level text
\* A row of the level text is a sequence of characters, two per position.
\* A variant that forgets the reveal flag.
HexCell_to_string_hidden(cell) ==
    << IF cell.is_blue THEN "x" ELSE "o", cell.info_type >>

HexCell_to_string(cell) ==
    << IF cell.is_blue THEN (IF cell.revealed THEN "X" ELSE "x")
       ELSE (IF cell.revealed THEN "O" ELSE "o"),
       cell.info_type >>

ColumnHint_to_string(hint) ==
    << hint.direction,
       IF hint.consecutive = "c" THEN "c"
       ELSE IF hint.consecutive = "n" THEN "n" ELSE "+" >>

\* The level text: five header lines and 33 rows; row y is the concatenation of
\* the two-character strings of grid[y][0..32], so character i of it (from 1) is
\* character (i - 1) % 2 of the string of position (i - 1) \div 2.
to_level_string(L, title, author) ==
    LET string(x, y) ==
            IF IsNone(L.grid, <<x, y>>) THEN <<".", ".">>
            ELSE IF L.grid[<<x, y>>].tag = "cell"
            THEN HexCell_to_string(L.grid[<<x, y>>])
            ELSE ColumnHint_to_string(L.hints[L.grid[<<x, y>>].id])
        row(y) == [i \in 1..(2 * GridSize) |-> string((i - 1) \div 2, y)[((i - 1) % 2) + 1]]
    IN <<"Hexcells level v1", title, author, "", "">>
           \o [j \in 1..GridSize |-> row(j - 1)]

\* common.load, from the level text format: rows are lines 6..38, the token of
\* position (x, y) is characters 2x+1 and 2x+2 of row y.
load(level_string) ==
    LET first(x, y) == level_string[5 + y + 1][2 * x + 1]
        second(x, y) == level_string[5 + y + 1][2 * x + 2]
        tokens == {q \in (0..(GridSize - 1)) \X (0..(GridSize - 1)) :
                      first(q[1], q[2]) # "."}
    IN [cells |->
            [p \in {q \in tokens : first(q[1], q[2]) \in {"o", "O", "x", "X"}} |->
                [kind |-> IF first(p[1], p[2]) \in {"x", "X"} THEN "full" ELSE "empty",
                 revealed |-> first(p[1], p[2]) \in {"O", "X"},
                 clue |-> second(p[1], p[2])]],
        columns |->
            [p \in {q \in tokens : first(q[1], q[2]) \in {"\\", "|", "/"}} |->
                [direction |-> first(p[1], p[2]),
                 grouping |-> second(p[1], p[2])]]]

\* ----------------------------------------------------------------- solver
\* Two positions are adjacent when they differ by one of the six offsets.
Adjacent(a, b) ==
    <<b[1] - a[1], b[2] - a[2]>> \in
        {<<0, -2>>, <<1, -1>>, <<1, 1>>, <<0, 2>>, <<-1, 1>>, <<-1, -1>>}

\* A set of positions is one connected component when every split of it into
\* two non-empty parts has an adjacent pair across the split.
Connected(S) ==
    \A A \in SUBSET S :
        (A # {} /\ A # S) => \E a \in A, b \in S \ A : Adjacent(a, b)

\* The constraint of a clued Cell: its neighbouring Cells, the number of Marked
\* ones among them, and its grouping symbol.
CellConstraint(sc, p) ==
    LET incell(q) == q \in DOMAIN sc.cells
        members == SelectSeq(get_neighbors(p[1], p[2]), incell)
    IN [kind |-> "cell", at |-> p, members |-> members,
        value |-> Cardinality({q \in Range(members) : sc.cells[q].kind = "full"}),
        grouping |-> sc.cells[p].clue]

\* The constraint of a LineHint: the Cells of its line in line order.
ColumnConstraint(sc, p) ==
    LET delta == direction_deltas(sc.columns[p].direction)
        walk == [k \in 1..GridSize |-> <<p[1] + (k - 1) * delta[1], p[2] + (k - 1) * delta[2]>>]
        incell(q) == q \in DOMAIN sc.cells
        members == SelectSeq(walk, incell)
    IN [kind |-> "column", at |-> p, members |-> members,
        value |-> Cardinality({q \in Range(members) : sc.cells[q].kind = "full"}),
        grouping |-> sc.columns[p].grouping]

\* The active constraints: every displayed clued Cell, then every LineHint.
Constraints(sc, d) ==
    LET clued == {p \in DOMAIN sc.cells : sc.cells[p].clue # "." /\ d[p] # "unknown"}
        cs == RowMajor(clued)
        hs == RowMajor(DOMAIN sc.columns)
    IN [i \in 1..Len(cs) |-> CellConstraint(sc, cs[i])]
           \o [i \in 1..Len(hs) |-> ColumnConstraint(sc, hs[i])]

\* Whether the values v (position -> "full" / "empty") of the members of
\* constraint c satisfy its count and its grouping.
Satisfies(c, v) ==
    LET marked == {i \in 1..Len(c.members) : v[c.members[i]] = "full"}
        together ==
            IF c.kind = "column"
            THEN \A i, j \in marked : \A k \in i..j : k \in marked
            ELSE Connected({c.members[i] : i \in marked})
    IN /\ Cardinality(marked) = c.value
       /\ c.grouping = "c" => together
       /\ c.grouping = "n" => ~together

Unknowns(c, d) == {q \in Range(c.members) : d[q] = "unknown"}

\* The completions of the unknown members of c that satisfy c.
Completions(c, d) ==
    {a \in [Unknowns(c, d) -> {"full", "empty"}] :
        Satisfies(c, [q \in Range(c.members) |->
                        IF d[q] = "unknown" THEN a[q] ELSE d[q]])}

\* Tier 1 on one constraint: the deductions (position -> value) it yields.
SimpleDeductions(c, d) ==
    LET unknown == Unknowns(c, d)
        marked == Cardinality({q \in Range(c.members) : d[q] = "full"})
    IN IF unknown = {} THEN Empty
       ELSE IF marked = c.value THEN [q \in unknown |-> "empty"]
       ELSE IF Cardinality(unknown) = c.value - marked THEN [q \in unknown |-> "full"]
       ELSE IF c.grouping \in {"c", "n"} /\ Cardinality(Completions(c, d)) = 1
       THEN CHOOSE a \in Completions(c, d) : TRUE
       ELSE Empty

\* A variant of the display setter that leaves remaining alone.
SetDisplay_no_count(sc, st, p, value) ==
    [st EXCEPT !.display[p] = value, !.guess[p] = "None"]

\* Cell.display = value (generator.py:79-94): the new display and remaining.
SetDisplay(sc, st, p, value) ==
    LET rem == IF st.display[p] # "full" /\ value = "full" THEN -1
               ELSE IF st.display[p] = "full" /\ value # "full" THEN 1 ELSE 0
    IN [st EXCEPT !.display[p] = value,
                  !.remaining = st.remaining + rem,
                  !.guess[p] = "None"]

\* "assert cell.kind is value; cell.display = cell.kind" for the deductions ded,
\* in row-major order.  st is [display, guess, remaining, progress, failed].
RECURSIVE ApplyDeductions(_, _, _, _)
ApplyDeductions(sc, st, ded, todo) ==
    IF todo = <<>> \/ st.failed THEN st
    ELSE LET p == Head(todo)
         IN IF sc.cells[p].kind # ded[p]
            THEN [st EXCEPT !.failed = TRUE, !.progress = TRUE]
            ELSE ApplyDeductions(sc,
                     [SetDisplay(sc, st, p, sc.cells[p].kind) EXCEPT !.progress = TRUE],
                     ded, Tail(todo))

\* One scan of solve_simple with each deduction applied before the next
\* constraint is looked at; the constraints are those active when the scan starts.
RECURSIVE SimpleScan(_, _, _)
SimpleScan(sc, st, todo) ==
    IF todo = <<>> \/ st.failed THEN st
    ELSE LET ded == SimpleDeductions(Head(todo), st.display)
         IN SimpleScan(sc, ApplyDeductions(sc, st, ded, RowMajor(DOMAIN ded)), Tail(todo))

solve_simple(sc, st) ==
    SimpleScan(sc, [st EXCEPT !.progress = FALSE], Constraints(sc, st.display))

\* Tier 2: the Unknown cells whose value is the same in every assignment of the
\* Unknown cells that satisfies all active constraints.
solve(sc, d) ==
    LET cons == Constraints(sc, d)
        U == UNION {Unknowns(cons[i], d) : i \in 1..Len(cons)}
        val(a, q) == IF d[q] = "unknown" THEN a[q] ELSE d[q]
        ok(a) == \A i \in 1..Len(cons) :
                    Satisfies(cons[i], [q \in Range(cons[i].members) |-> val(a, q)])
        consistent == {a \in [U -> {"full", "empty"}] : ok(a)}
        forced == {q \in U : \/ \A a \in consistent : a[q] = "full"
                             \/ \A a \in consistent : a[q] = "empty"}
    IN [q \in forced |-> IF \A a \in consistent : a[q] = "full" THEN "full" ELSE "empty"]

\* Scene.confirm_guesses (opposite = False).
RECURSIVE ConfirmScan(_, _, _)
ConfirmScan(sc, st, todo) ==
    IF todo = <<>> THEN st
    ELSE LET p == Head(todo)
         IN ConfirmScan(sc,
                IF st.guess[p] # "None" /\ st.display[p] = "unknown"
                       /\ sc.cells[p].kind = st.guess[p]
                THEN SetDisplay(sc, st, p, sc.cells[p].kind)
                ELSE st,
                Tail(todo))

\* A variant that confirms nothing.
confirm_guesses_none(sc, st) == st

confirm_guesses(sc, st) == ConfirmScan(sc, st, RowMajor(DOMAIN sc.cells))

\* Scene.prepare: remaining, and the display of the revealed cells.
prepare(sc) ==
    [display |-> [p \in DOMAIN sc.cells |->
                    IF sc.cells[p].revealed THEN sc.cells[p].kind ELSE "unknown"],
     guess |-> [p \in DOMAIN sc.cells |-> "None"],
     remaining |-> Cardinality({p \in DOMAIN sc.cells :
                        sc.cells[p].kind = "full" /\ ~sc.cells[p].revealed}),
     progress |-> FALSE,
     failed |-> FALSE]

\* --------------------------------------------------------- minimize_clues
\* The enumeration of minimize_clues (generator.py:631-639); a column clue
\* names its index in column_hints (from 1 here, from 0 in the source).
ClueList(L) ==
    LET cells == RowMajor({p \in Cells(L.grid) : L.grid[p].info_type # "."})
    IN [i \in 1..Len(L.column_hints) |-> <<"column", i>>]
           \o [i \in 1..Len(cells) |->
                 <<IF L.grid[cells[i]].is_blue THEN "flower" ELSE "blackcell",
                   cells[i][1], cells[i][2]>>]

\* int(len(clues) * clue_removal_ratio), the ratio given as <<num, den>>.
NumTries(c, n) == (n * c.clue_removal_ratio[1]) \div c.clue_removal_ratio[2]

\* The first k entries of the shuffles of list: its arrangements of length k.
Shuffled(list, k) ==
    {[i \in 1..k |-> list[f[i]]] :
        f \in {g \in [1..k -> 1..Len(list)] : \A i, j \in 1..k : i # j => g[i] # g[j]}}

\* remove_clue: the level after it and the backup it returns, the clue of a
\* Cell as [info_type |-> ...], a hint (or None) as [hint |-> ...].
remove_clue(L, clue) ==
    IF clue[1] = "flower" \/ clue[1] = "blackcell"
    THEN LET p == <<clue[2], clue[3]>>
         IN [level |-> Level([L.grid EXCEPT ![p].info_type = "."], L.hints, L.column_hints),
             backup |-> [info_type |-> L.grid[p].info_type]]
    ELSE LET idx == clue[2]
             b == L.column_hints[idx]
         IN IF idx <= Len(L.column_hints)
            THEN [level |-> Level(IF b # None
                                  THEN Clear(L.grid, <<L.hints[b].x, L.hints[b].y>>)
                                  ELSE L.grid,
                                  L.hints,
                                  [L.column_hints EXCEPT ![idx] = None]),
                  backup |-> [hint |-> b]]
            ELSE [level |-> L, backup |-> [hint |-> None]]

\* restore_clue with the backup b.
restore_clue(L, clue, b) ==
    IF clue[1] = "flower" \/ clue[1] = "blackcell"
    THEN Level([L.grid EXCEPT ![<<clue[2], clue[3]>>].info_type = b.info_type],
               L.hints, L.column_hints)
    ELSE IF b.hint = None THEN L
    ELSE LET idx == clue[2]
         IN IF idx <= Len(L.column_hints)
            THEN Level(Put(L.grid, <<L.hints[b.hint].x, L.hints[b.hint].y>>, HintRef(b.hint)),
                       L.hints,
                       [L.column_hints EXCEPT ![idx] = b.hint])
            ELSE L

count_clues(L) ==
    Cardinality({p \in Cells(L.grid) : L.grid[p].info_type # "."})
        + Cardinality({i \in 1..Len(L.column_hints) : L.column_hints[i] # None})

\* ------------------------------------------------------ the solvability run
\* Tier 1 to its fixed point (generator.py:182-189).
RECURSIVE SimpleFixpoint(_, _)
SimpleFixpoint(sc, st) ==
    LET next == solve_simple(sc, st)
    IN IF next.failed \/ ~next.progress THEN next ELSE SimpleFixpoint(sc, next)

\* The guesses solve_step records for the deductions ded (generator.py:164-169).
SetGuesses(sc, st, ded) ==
    [st EXCEPT !.guess = [p \in DOMAIN st.guess |->
                            IF p \in DOMAIN ded THEN ded[p] ELSE st.guess[p]],
               !.failed = \E p \in DOMAIN ded : sc.cells[p].kind # ded[p],
               !.progress = DOMAIN ded # {}]

\* solve_complete from the top of its loop: "AssertionError", or the value returned.
RECURSIVE solve_loop(_, _)
solve_loop(sc, st) ==
    LET fixed == SimpleFixpoint(sc, confirm_guesses(sc, st))
        conf == confirm_guesses(sc, fixed)
        step == SetGuesses(sc, conf, solve(sc, conf.display))
    IN IF fixed.failed \/ step.failed THEN "AssertionError"
       ELSE IF ~step.progress THEN (IF step.remaining = 0 THEN "True" ELSE "False")
       ELSE solve_loop(sc, step)

\* is_solvable(level) as one function of the level.
is_solvable(L) ==
    LET sc == load(to_level_string(L, "Generated Level", "Generator"))
    IN solve_loop(sc, prepare(sc))

\* ------------------------------------------------------------------ state
Lvl == Level(grid, hints, column_hints)

St == [display |-> display, guess |-> guess, remaining |-> remaining,
       progress |-> FALSE, failed |-> FALSE]

NoScene == [cells |-> Empty, columns |-> Empty]

\* The configurations: the defaults of generator.py:343-355 for the
\* probabilities (in percent) and reveal_density; width 2k - 1 gives k columns.
ConfigsOf(widths, heights, removed, ratios, attempts) ==
    [width : widths,
     height : heights,
     constrain_by_radius : BOOLEAN,
     cell_spawn_chance : {95},
     blue_density : {40},
     column_hint_chance : {60},
     blue_info_weight_plus : {30},
     blue_info_weight_none : {70},
     min_columns_removed : {0},
     max_columns_removed : removed,
     reveal_density : {RevealDensity},
     clue_removal_ratio : ratios,
     max_attempts : attempts]

\* Patterns of area width * height up to MaxArea, one attempt, no clue tried
\* (clue_removal_ratio 0), and patterns of up to MinimizeHeight rows with
\* retries and a third of the clues tried.
Configs ==
    {c \in ConfigsOf({2 * k - 1 : k \in 1..MaxCols}, 1..MaxHeight, {MaxRemoved},
                     {<<0, 1>>}, {1}) :
        c.width * c.height <= MaxArea}
    \cup ConfigsOf({1}, 1..MinimizeHeight, 0..MaxRemoved, {<<1, 3>>}, {MaxAttempts})

InitWith(C) ==
    /\ cfg \in C
    /\ pc = "generate"
    /\ attempt = 0
    /\ grid = Empty
    /\ hints = <<>>
    /\ column_hints = <<>>
    /\ removenum = 0
    /\ clues = <<>>
    /\ ci = 0
    /\ backup = [hint |-> None]
    /\ scene = NoScene
    /\ display = Empty
    /\ guess = Empty
    /\ remaining = 0
    /\ solving = 0
    /\ caller = "generate"
    /\ result = "None"
    /\ positions = {}
    /\ is_grouped = "None"
    /\ line_call = "None"
    /\ original = Level(Empty, <<>>, <<>>)

Init == InitWith(Configs)

levelVars == <<grid, hints, column_hints>>
sceneVars == <<scene, display, guess, remaining, solving>>
minVars == <<clues, ci, backup>>

SetLevel(L) ==
    /\ grid' = L.grid
    /\ hints' = L.hints
    /\ column_hints' = L.column_hints

SetSt(st) ==
    /\ display' = st.display
    /\ guess' = st.guess
    /\ remaining' = st.remaining

DropScene ==
    /\ scene' = NoScene
    /\ display' = Empty
    /\ guess' = Empty
    /\ remaining' = 0
    /\ solving' = 0

\* ---------------------------------------------------------------- generate
\* "for attempt in range(max_attempts): level = self.create_pattern()", up to
\* the reveal step: the cells spawned, for the draws kinds.
CreatePattern(Spawns) ==
    /\ pc = "generate"
    /\ attempt < cfg.max_attempts
    /\ \E kinds \in Spawns :
         /\ \A p \in DOMAIN kinds : kinds[p] \in SpawnKinds(cfg)
         /\ grid' = SpawnGrid(kinds)
    /\ hints' = <<>>
    /\ column_hints' = <<>>
    /\ attempt' = attempt + 1
    /\ pc' = "reveal"
    /\ UNCHANGED <<groupVars, cfg, removenum, minVars, sceneVars, caller, result>>

\* The loop of generate ran out: "return None".
ReturnNone ==
    /\ pc = "generate"
    /\ attempt >= cfg.max_attempts
    /\ pc' = "done"
    /\ result' = "None"
    /\ UNCHANGED <<groupVars, cfg, attempt, levelVars, removenum, minVars, sceneVars, caller>>

\* random.sample(all_cells, num_to_reveal) and the reveal loop.
Reveal ==
    /\ pc = "reveal"
    /\ num_to_reveal(cfg, grid) <= Cardinality(NonBlue(grid))
    /\ \E chosen \in SUBSET NonBlue(grid) :
         /\ Cardinality(chosen) = num_to_reveal(cfg, grid)
         /\ grid' = RevealCells(grid, chosen)
    /\ pc' = "add_column_hints"
    /\ UNCHANGED <<groupVars, cfg, attempt, hints, column_hints, removenum, minVars,
                   sceneVars, caller, result>>

\* random.sample raises ValueError when the sample is larger than the population.
RevealFails ==
    /\ pc = "reveal"
    /\ num_to_reveal(cfg, grid) > Cardinality(NonBlue(grid))
    /\ pc' = "ValueError"
    /\ UNCHANGED <<groupVars, cfg, attempt, levelVars, removenum, minVars, sceneVars,
                   caller, result>>

AddColumnHints ==
    /\ pc = "add_column_hints"
    /\ \E attach \in SUBSET Cells(grid) :
         /\ \A p \in Cells(grid) : (p \notin attach) \in Draw(cfg.column_hint_chance)
         /\ SetLevel(add_column_hints(Lvl, attach))
    /\ pc' = "remove_random_column_hint"
    /\ UNCHANGED <<groupVars, cfg, attempt, removenum, minVars, sceneVars, caller, result>>

\* remove_random_column_hint up to its loop: the early return, or removenum.
RemoveBegin ==
    /\ pc = "remove_random_column_hint"
    /\ IF column_hints = <<>>
       THEN /\ pc' = "recheck_hints"
            /\ removenum' = 0
       ELSE /\ \E n \in cfg.min_columns_removed..cfg.max_columns_removed :
                 removenum' = n
            /\ pc' = "discard"
    /\ UNCHANGED <<groupVars, cfg, attempt, levelVars, minVars, sceneVars, caller, result>>

\* One iteration of its loop: random.choice and the removal of the line.
Discard ==
    /\ pc = "discard"
    /\ removenum > 0
    /\ column_hints # <<>>
    /\ \E i \in 1..Len(column_hints) : SetLevel(DiscardHint(Lvl, column_hints[i]))
    /\ removenum' = removenum - 1
    /\ UNCHANGED <<groupVars, cfg, pc, attempt, minVars, sceneVars, caller, result>>

DiscardEnd ==
    /\ pc = "discard"
    /\ removenum = 0 \/ column_hints = <<>>
    /\ removenum' = 0
    /\ pc' = "recheck_hints"
    /\ UNCHANGED <<groupVars, cfg, attempt, levelVars, minVars, sceneVars, caller, result>>

RecheckHints ==
    /\ pc = "recheck_hints"
    /\ SetLevel(recheck_hints(Lvl))
    /\ pc' = "set_black_cell_info_types"
    /\ UNCHANGED <<groupVars, cfg, attempt, removenum, minVars, sceneVars, caller, result>>

\* The last step of create_pattern; generate then calls is_solvable(level).
SetInfoTypes ==
    /\ pc = "set_black_cell_info_types"
    /\ grid' = set_black_cell_info_types(grid)
    /\ pc' = "is_solvable"
    /\ caller' = "generate"
    /\ UNCHANGED <<groupVars, cfg, attempt, hints, column_hints, removenum, minVars,
                   sceneVars, result>>

\* ------------------------------------------------------------- is_solvable
\* is_solvable up to the loop of solve_complete: the scene is loaded from the
\* level string and prepared, and solving is set to 1.
IsSolvableBegin ==
    /\ pc = "is_solvable"
    /\ LET sc == load(to_level_string(Lvl, "Generated Level", "Generator"))
       IN /\ scene' = sc
          /\ SetSt(prepare(sc))
    /\ solving' = 1
    /\ pc' = "solve_complete"
    /\ UNCHANGED <<groupVars, cfg, attempt, levelVars, removenum, minVars, caller, result>>

\* "while self.solving: self.confirm_guesses()".
ConfirmGuesses ==
    /\ pc = "solve_complete"
    /\ solving # 0
    /\ SetSt(confirm_guesses(scene, St))
    /\ pc' = "solve_simple"
    /\ UNCHANGED <<groupVars, cfg, attempt, levelVars, removenum, minVars, scene, solving,
                   caller, result>>

\* One round of "while progress" that makes a deduction.
SolveSimpleProgress ==
    /\ pc = "solve_simple"
    /\ LET st == solve_simple(scene, St)
       IN /\ st.progress
          /\ SetSt(st)
          /\ pc' = IF st.failed THEN "AssertionError" ELSE "solve_simple"
    /\ UNCHANGED <<groupVars, cfg, attempt, levelVars, removenum, minVars, scene, solving,
                   caller, result>>

\* The round that makes none: "self.solving -= 1".
SolveSimpleFixed ==
    /\ pc = "solve_simple"
    /\ ~solve_simple(scene, St).progress
    /\ solving' = solving - 1
    /\ pc' = "solve_step"
    /\ UNCHANGED <<groupVars, cfg, attempt, levelVars, removenum, minVars, scene, display,
                   guess, remaining, caller, result>>

\* What solve_step does and returns: [st, progress], progress "None" when it
\* returns early.
solve_step(sc, st, busy) ==
    IF busy # 0 THEN [st |-> st, progress |-> "None"]
    ELSE LET conf == confirm_guesses(sc, st)
             step == SetGuesses(sc, conf, solve(sc, conf.display))
         IN [st |-> step, progress |-> IF step.progress THEN "True" ELSE "False"]

\* solve_step made progress: "self.solving += 1" and back to the top.
SolveStepProgress ==
    /\ pc = "solve_step"
    /\ LET r == solve_step(scene, St, solving)
       IN /\ r.progress = "True"
          /\ SetSt(r.st)
          /\ pc' = IF r.st.failed THEN "AssertionError" ELSE "solve_complete"
    /\ solving' = solving + 1
    /\ UNCHANGED <<groupVars, cfg, attempt, levelVars, removenum, minVars, scene, caller, result>>

\* solve_step made none: break, "self.solving = 0; return self.remaining == 0".
SolveStepStuck ==
    /\ pc = "solve_step"
    /\ LET r == solve_step(scene, St, solving)
       IN /\ r.progress # "True"
          /\ SetSt(r.st)
          /\ result' = IF r.st.remaining = 0 THEN "True" ELSE "False"
    /\ solving' = 0
    /\ pc' = "solved"
    /\ UNCHANGED <<groupVars, cfg, attempt, levelVars, removenum, minVars, scene, caller>>

\* ------------------------------------------------- generate, after the check
GenerateRetry ==
    /\ pc = "solved"
    /\ caller = "generate"
    /\ result = "False"
    /\ pc' = "generate"
    /\ DropScene
    /\ UNCHANGED <<groupVars, cfg, attempt, levelVars, removenum, minVars, caller, result>>

\* "self.minimize_clues(level)" up to its loop: enumerate, shuffle, truncate.
MinimizeBegin ==
    /\ pc = "solved"
    /\ caller = "generate"
    /\ result = "True"
    /\ LET list == ClueList(Lvl)
           k == NumTries(cfg, Len(list))
       IN clues' \in Shuffled(list, k)
    /\ ci' = 1
    /\ pc' = "remove_clue"
    /\ DropScene
    /\ original' = Lvl
    /\ UNCHANGED <<callVars, cfg, attempt, levelVars, removenum, backup, caller, result>>

\* "backup = self.remove_clue(level, clue)"; is_solvable(level) comes next.
RemoveClue ==
    /\ pc = "remove_clue"
    /\ ci <= Len(clues)
    /\ LET r == remove_clue(Lvl, clues[ci])
       IN /\ SetLevel(r.level)
          /\ backup' = r.backup
    /\ caller' = "minimize"
    /\ pc' = "is_solvable"
    /\ UNCHANGED <<groupVars, cfg, attempt, removenum, clues, ci, sceneVars, result>>

\* The removal is kept.
MinimizeKeep ==
    /\ pc = "solved"
    /\ caller = "minimize"
    /\ result = "True"
    /\ ci' = ci + 1
    /\ pc' = "remove_clue"
    /\ DropScene
    /\ UNCHANGED <<groupVars, cfg, attempt, levelVars, removenum, clues, backup, caller, result>>

\* The removal is reverted: "self.restore_clue(level, clue, backup)".
MinimizeRestore ==
    /\ pc = "solved"
    /\ caller = "minimize"
    /\ result = "False"
    /\ SetLevel(restore_clue(Lvl, clues[ci], backup))
    /\ ci' = ci + 1
    /\ pc' = "remove_clue"
    /\ DropScene
    /\ UNCHANGED <<groupVars, cfg, attempt, removenum, clues, backup, caller, result>>

\* minimize_clues returns and generate returns the level.
ReturnLevel ==
    /\ pc = "remove_clue"
    /\ ci > Len(clues)
    /\ pc' = "done"
    /\ result' = "level"
    /\ UNCHANGED <<groupVars, cfg, attempt, levelVars, removenum, minVars, sceneVars, caller>>

AllSpawns == [Eligible(cfg) -> {"none", "o+", "x+", "x."}]

Next ==
    \/ CreatePattern(AllSpawns)
    \/ ReturnNone
    \/ Reveal
    \/ RevealFails
    \/ AddColumnHints
    \/ RemoveBegin
    \/ Discard
    \/ DiscardEnd
    \/ RecheckHints
    \/ SetInfoTypes
    \/ IsSolvableBegin
    \/ ConfirmGuesses
    \/ SolveSimpleProgress
    \/ SolveSimpleFixed
    \/ SolveStepProgress
    \/ SolveStepStuck
    \/ GenerateRetry
    \/ MinimizeBegin
    \/ RemoveClue
    \/ MinimizeKeep
    \/ MinimizeRestore
    \/ ReturnLevel

Spec == Init /\ [][Next]_vars

\* ------------------------------------- two discards on a five-row pattern
\* One column of five rows (width 1, height 5), every cell attaching its hints
\* (column_hint_chance 0), no '+' on blue cells, exactly two discards, two of
\* five clues tried, one attempt.
AliasConfigs ==
    [width : {1},
     height : {5},
     constrain_by_radius : {FALSE},
     cell_spawn_chance : {95},
     blue_density : {40},
     column_hint_chance : {0},
     blue_info_weight_plus : {0},
     blue_info_weight_none : {70},
     min_columns_removed : {2},
     max_columns_removed : {2},
     reveal_density : {RevealDensity},
     clue_removal_ratio : {<<2, 5>>},
     max_attempts : {1}]

\* The draws that leave the middle position (16, 15) empty and spawn the four
\* others, the two upper ones not blue.
AliasSpawns ==
    {k \in [Eligible(cfg) -> {"none", "o+", "x+", "x."}] :
        /\ k[<<16, 13>>] = "o+"
        /\ k[<<15, 14>>] = "o+"
        /\ k[<<16, 15>>] = "none"
        /\ k[<<15, 16>>] # "none"
        /\ k[<<16, 17>>] # "none"}

InitAlias == InitWith(AliasConfigs)

NextAlias ==
    \/ CreatePattern(AliasSpawns)
    \/ ReturnNone
    \/ Reveal
    \/ AddColumnHints
    \/ RemoveBegin
    \/ Discard
    \/ DiscardEnd
    \/ RecheckHints
    \/ SetInfoTypes
    \/ IsSolvableBegin
    \/ ConfirmGuesses
    \/ SolveSimpleProgress
    \/ SolveSimpleFixed
    \/ SolveStepStuck
    \/ GenerateRetry
    \/ MinimizeBegin
    \/ RemoveClue
    \/ MinimizeKeep
    \/ MinimizeRestore
    \/ ReturnLevel

SpecAlias == InitAlias /\ [][NextAlias]_vars

\* ------------------------------------------------- all_grouped on its own
\* The cells around which position sets are drawn: the two corners of the grid
\* and its middle.
GroupCentres == {<<0, 0>>, <<16, 16>>, <<GridSize - 1, GridSize - 1>>}

\* The lattice positions of the grid within one column and GroupSpan rows of c.
Region(c) ==
    {p \in ((c[1] - 1)..(c[1] + 1)) \X ((c[2] - GroupSpan)..(c[2] + GroupSpan)) :
        /\ InBounds(p[1], p[2])
        /\ (p[1] + p[2]) % 2 = (c[1] + c[2]) % 2}

InitGrouped ==
    /\ cfg \in AliasConfigs
    /\ pc = "all_grouped"
    /\ attempt = 0
    /\ grid = Empty
    /\ hints = <<>>
    /\ column_hints = <<>>
    /\ removenum = 0
    /\ clues = <<>>
    /\ ci = 0
    /\ backup = [hint |-> None]
    /\ scene = NoScene
    /\ display = Empty
    /\ guess = Empty
    /\ remaining = 0
    /\ solving = 0
    /\ caller = "generate"
    /\ result = "None"
    /\ \E c \in GroupCentres : positions \in SUBSET Region(c)
    /\ is_grouped = "None"
    /\ line_call = "None"
    /\ original = Level(Empty, <<>>, <<>>)

AllGrouped ==
    /\ pc = "all_grouped"
    /\ is_grouped' = all_grouped(positions)
    /\ pc' = "grouped"
    /\ UNCHANGED <<cfg, attempt, levelVars, removenum, minVars, sceneVars, caller,
                   result, positions, line_call, original>>

NextGrouped == AllGrouped

SpecGrouped == InitGrouped /\ [][NextGrouped]_vars

\* ------------------------------------------------- create_pattern on its own
\* One column of PatternHeight rows where every cell attaches its hints
\* (column_hint_chance 0) and blue cells carry no '+', and one column of up to
\* SmallHeight rows with the default probabilities; up to PatternRemoved
\* discards, one attempt.
TallConfigs ==
    [width : {1},
     height : {PatternHeight},
     constrain_by_radius : {FALSE},
     cell_spawn_chance : {95},
     blue_density : {40},
     column_hint_chance : {0},
     blue_info_weight_plus : {0},
     blue_info_weight_none : {70},
     min_columns_removed : {0},
     max_columns_removed : {PatternRemoved},
     reveal_density : {RevealDensity},
     clue_removal_ratio : {<<0, 1>>},
     max_attempts : {1}]

PatternConfigs ==
    TallConfigs
    \cup {c \in ConfigsOf({1}, 1..SmallHeight, {PatternRemoved}, {<<0, 1>>}, {1}) :
              ~c.constrain_by_radius}
    \cup {c \in ConfigsOf({1}, {1}, {ExhaustRemoved}, {<<0, 1>>}, {1}) :
              ~c.constrain_by_radius}

InitPattern == InitWith(PatternConfigs)

\* generate up to the return of create_pattern.
NextPattern ==
    \/ CreatePattern(AllSpawns)
    \/ Reveal
    \/ RevealFails
    \/ AddColumnHints
    \/ RemoveBegin
    \/ Discard
    \/ DiscardEnd
    \/ RecheckHints
    \/ SetInfoTypes

SpecPattern == InitPattern /\ [][NextPattern]_vars

\* The same on the tall column, up to the scene that is_solvable loads from
\* the level text.
\* A one-column pattern tall enough for a '|' hint to have four empty
\* positions ahead of it, next to the pattern of PatternHeight rows.
NudgeConfigs == TallConfigs \cup {[c EXCEPT !.height = NudgeHeight] : c \in TallConfigs}

\* The draws of create_pattern; for the pattern of NudgeHeight rows only those
\* that spawn nothing in the even rows and a black cell in the top row, so
\* that all cells are on one '|' line.
NudgeSpawns ==
    IF cfg.height # NudgeHeight THEN AllSpawns
    ELSE LET odd == {p \in Eligible(cfg) : p[2] % 2 = 1}
             top == CHOOSE p \in odd : \A q \in odd : p[2] <= q[2]
         IN {[p \in Eligible(cfg) |-> IF p \in odd THEN f[p] ELSE "none"] :
                f \in {g \in [odd -> {"none", "o+", "x."}] : g[top] = "o+"}}

InitNudge == InitWith(NudgeConfigs)

NextNudge ==
    \/ CreatePattern(NudgeSpawns)
    \/ Reveal
    \/ RevealFails
    \/ AddColumnHints
    \/ RemoveBegin
    \/ Discard
    \/ DiscardEnd
    \/ RecheckHints
    \/ SetInfoTypes

SpecNudge == InitNudge /\ [][NextNudge]_vars

InitText == InitWith(TallConfigs)

NextText ==
    \/ CreatePattern(AllSpawns)
    \/ Reveal
    \/ RevealFails
    \/ AddColumnHints
    \/ RemoveBegin
    \/ Discard
    \/ DiscardEnd
    \/ RecheckHints
    \/ SetInfoTypes
    \/ IsSolvableBegin

SpecText == InitText /\ [][NextText]_vars

\* ------------------------------------------------------------------ claims
\* The clues still present in the level: the filled slots of column_hints and
\* the Cells whose info_type is not '.'.
PresentClues(L) ==
    {<<"column", i>> : i \in {j \in 1..Len(L.column_hints) : L.column_hints[j] # None}}
        \cup {<<IF L.grid[p].is_blue THEN "flower" ELSE "blackcell", p[1], p[2]>> :
                p \in {q \in Cells(L.grid) : L.grid[q].info_type # "."}}

\* C1: minimize_clues starts on a level that passed is_solvable; after every
\* clue-removal attempt of the pass, kept or reverted, and when minimize_clues
\* has returned, a fresh is_solvable of the level returns True.
C1_SolvableAfterEveryAttempt ==
    ((pc = "remove_clue" /\ ci > 1) \/ (pc = "done" /\ result = "level" /\ clues # <<>>))
        => is_solvable(Lvl) = "True"

\* C2: in every level state between two attempts of minimize_clues, for every
\* clue present, remove_clue followed by restore_clue with the returned backup
\* gives back the same level: grid, hint list and hint fields.
C2_RestoreIsExact ==
    pc = "remove_clue" =>
        \A clue \in PresentClues(Lvl) :
            LET r == remove_clue(Lvl, clue)
            IN restore_clue(r.level, clue, r.backup) = Lvl

\* C3: when minimize_clues has returned, every attempted clue that was restored
\* (it is still present) cannot be removed: the level without it fails
\* is_solvable.
C3_NoRestoredClueRemovable ==
    (pc = "done" /\ result = "level") =>
        \A i \in 1..Len(clues) :
            clues[i] \in PresentClues(Lvl) =>
                is_solvable(remove_clue(Lvl, clues[i]).level) # "True"

\* C4: generate makes at most max_attempts patterns, returns None only after
\* exactly max_attempts of them, never goes back to create_pattern once
\* minimize_clues has begun, and every level it returns passes is_solvable.
C4_GenerateResult ==
    /\ attempt <= cfg.max_attempts
    /\ (pc = "done" /\ result = "None") => attempt = cfg.max_attempts
    /\ caller = "minimize" => pc \notin {"generate", "reveal"}
    /\ (pc = "done" /\ result = "level") => is_solvable(Lvl) = "True"


\* C5: the solver never emits a wrong deduction: the assertion of solve_step
\* never fails and every guess recorded by Tier 2 is the cell's true kind.
C5_DeductionsAreTrue ==
    /\ pc # "AssertionError"
    /\ \A p \in DOMAIN guess : guess[p] \in {"None", scene.cells[p].kind}

\* A Tier 2 deduction is recorded on some cell.
C5_Witness ==
    \E p \in DOMAIN guess : guess[p] # "None" /\ guess[p] = scene.cells[p].kind

InSolver == pc \in {"solve_complete", "solve_simple", "solve_step", "solved"}

MarkedNotShown == {p \in DOMAIN scene.cells :
                      scene.cells[p].kind = "full" /\ display[p] # "full"}

\* C6: in every state of the solver, remaining is the number of Marked cells
\* not displayed as Marked, and solve_complete returns True exactly when that
\* number is zero.
C6_RemainingCountsMarked ==
    InSolver =>
        /\ remaining = Cardinality(MarkedNotShown)
        /\ pc = "solved" => ((result = "True") <=> (MarkedNotShown = {}))

\* solve_complete returned True after the solver had displayed a Marked cell.
C6_Witness ==
    /\ pc = "solved"
    /\ result = "True"
    /\ \E p \in DOMAIN scene.cells : scene.cells[p].kind = "full" /\ display[p] = "full"

\* C7: when solve_complete returns True, no Cell is left Unknown.
C7_NoUnknownWhenSolvable ==
    (pc = "solved" /\ result = "True") =>
        \A p \in DOMAIN display : display[p] # "unknown"

\* The occupied positions: those of the grid and of the hints listed in
\* column_hints.
Occupied ==
    DOMAIN grid \cup {<<hints[column_hints[i]].x, hints[column_hints[i]].y>> :
                        i \in {j \in 1..Len(column_hints) : column_hints[j] # None}}

C9_GroupedIffConnected ==
    pc = "grouped" => is_grouped = Connected(positions)

\* all_grouped has run on a connected set of three positions that are not all
\* adjacent to the first one.
C9_Witness ==
    /\ pc = "grouped"
    /\ is_grouped = TRUE
    /\ Cardinality(positions) >= 3
    /\ \E p, q \in positions : p # q /\ ~Adjacent(p, q)

\* The in-grid neighbours of c, and the sets of them forming one arc of the
\* ring around c.
Ring(c) == get_neighbors(c[1], c[2])
IsArc(S) == S = {} \/ Connected(S)
NeighbourSet(c) == positions \subseteq Range(Ring(c))

\* C10 as stated: a neighbour set of size 0, 1 or 2 is reported together, a
\* larger one with a gap is reported apart.
C10_SmallAlwaysTogether ==
    pc = "grouped" =>
        \A c \in GroupCentres :
            NeighbourSet(c) =>
                /\ Cardinality(positions) <= 2 => is_grouped = TRUE
                /\ (Cardinality(positions) >= 3 /\ ~IsArc(positions)) => is_grouped = FALSE

\* C10: a neighbour set of size 0 or 1 is reported together, one of size 2
\* exactly when its two positions are adjacent, a larger one with a gap apart.
C10_PairTogetherIffAdjacent ==
    pc = "grouped" =>
        \A c \in GroupCentres :
            NeighbourSet(c) =>
                /\ Cardinality(positions) <= 1 => is_grouped = TRUE
                /\ Cardinality(positions) = 2 =>
                      (is_grouped = TRUE <=> \A p, q \in positions : p = q \/ Adjacent(p, q))
                /\ (Cardinality(positions) >= 3 /\ ~IsArc(positions)) => is_grouped = FALSE

\* all_grouped has run on two neighbours of the middle cell that are not
\* adjacent to one another.
C10_Witness ==
    /\ pc = "grouped"
    /\ is_grouped = FALSE
    /\ Cardinality(positions) = 2
    /\ positions \subseteq Range(Ring(<<16, 16>>))


\* One-column patterns of CluesHeight rows, up to PatternRemoved discards, and
\* one clue in six tried by minimize_clues.
CluesConfigs ==
    [width : {1},
     height : {CluesHeight},
     constrain_by_radius : {FALSE},
     cell_spawn_chance : {95},
     blue_density : {40},
     column_hint_chance : {60},
     blue_info_weight_plus : {0},
     blue_info_weight_none : {70},
     min_columns_removed : {0},
     max_columns_removed : {PatternRemoved},
     reveal_density : {RevealDensity},
     clue_removal_ratio : {<<1, 6>>},
     max_attempts : {1}]

InitClues == InitWith(CluesConfigs)

NextClues ==
    \/ CreatePattern(AllSpawns)
    \/ ReturnNone
    \/ Reveal
    \/ RevealFails
    \/ AddColumnHints
    \/ RemoveBegin
    \/ Discard
    \/ DiscardEnd
    \/ RecheckHints
    \/ SetInfoTypes
    \/ IsSolvableBegin
    \/ ConfirmGuesses
    \/ SolveSimpleProgress
    \/ SolveSimpleFixed
    \/ SolveStepProgress
    \/ SolveStepStuck
    \/ GenerateRetry
    \/ MinimizeBegin
    \/ RemoveClue
    \/ MinimizeKeep
    \/ MinimizeRestore
    \/ ReturnLevel

SpecClues == InitClues /\ [][NextClues]_vars

\* The text is_solvable encodes: title and author are still the defaults of
\* GeneratedLevel.__init__.
LevelText == to_level_string(Lvl, "Generated Level", "Generator")

\* C11: to_level_string yields 38 lines: the header "Hexcells level v1",
\* title, author and two empty lines, then 33 rows of 66 characters; the token
\* of a position is ".." exactly when the position is empty, that of a Cell
\* starts with o, O, x or X according to kind and reveal flag, that of a
\* LineHint with its direction, and the second character is ., +, c or n.
C11_LevelTextFormat ==
    pc = "is_solvable" =>
        LET s == LevelText
        IN /\ Len(s) = 38
           /\ SubSeq(s, 1, 5) = <<"Hexcells level v1", "Generated Level", "Generator", "", "">>
           /\ \A y \in 0..32 : DOMAIN s[6 + y] = 1..66
           /\ \A x \in 0..32, y \in 0..32 :
                LET a == s[6 + y][2 * x + 1]
                    b == s[6 + y][2 * x + 2]
                    p == <<x, y>>
                IN /\ (a = "." /\ b = ".") <=> IsNone(grid, p)
                   /\ IsHexCell(grid, p) =>
                        /\ a = (IF grid[p].is_blue
                                THEN (IF grid[p].revealed THEN "X" ELSE "x")
                                ELSE (IF grid[p].revealed THEN "O" ELSE "o"))
                        /\ b \in {".", "+", "c", "n"}
                   /\ IsColumnHint(grid, p) =>
                        /\ a = hints[grid[p].id].direction
                        /\ a \in {"\\", "|", "/"}
                        /\ b \in {".", "+", "c", "n"}

\* A level about to be encoded that holds a revealed cell, a blue cell and a
\* hint with grouping 'n'.
C11_Witness ==
    /\ pc = "is_solvable"
    /\ \E p \in Cells(grid) : grid[p].revealed
    /\ \E p \in Cells(grid) : grid[p].is_blue
    /\ \E p \in DOMAIN grid :
          IsColumnHint(grid, p) /\ hints[grid[p].id].consecutive = "n"

\* The LineHints the level holds in its hint list, as (position, direction,
\* grouping); a grouping of None is written '+' in the text.
ListedHints(L) ==
    {<< <<L.hints[id].x, L.hints[id].y>>, L.hints[id].direction,
        IF L.hints[id].consecutive = "None" THEN "+" ELSE L.hints[id].consecutive >> :
        id \in {i \in Range(L.column_hints) : i # None}}

\* The LineHints of a parsed level, in the same form.
ParsedHints(sc) ==
    {<<p, sc.columns[p].direction, sc.columns[p].grouping>> : p \in DOMAIN sc.columns}

\* C12: the level parsed back from the text is_solvable encodes is the level
\* it encoded: the same Cells (kind, reveal flag, clue) at the same positions
\* and the same LineHints (position, direction, grouping) as the grid and the
\* hint list hold.
C12_RoundTrip ==
    pc = "solve_complete" =>
        /\ DOMAIN scene.cells = Cells(grid)
        /\ \A p \in Cells(grid) :
              /\ (scene.cells[p].kind = "full") = grid[p].is_blue
              /\ scene.cells[p].revealed = grid[p].revealed
              /\ scene.cells[p].clue = grid[p].info_type
        /\ DOMAIN scene.columns = {p \in DOMAIN grid : IsColumnHint(grid, p)}
        /\ ParsedHints(scene) = ListedHints(Lvl)

\* The part of C12 that does not read the hint list: Cells and the LineHints
\* of the grid come back as they were.
C12_GridRoundTrip ==
    pc = "solve_complete" =>
        /\ DOMAIN scene.cells = Cells(grid)
        /\ \A p \in Cells(grid) :
              /\ (scene.cells[p].kind = "full") = grid[p].is_blue
              /\ scene.cells[p].revealed = grid[p].revealed
              /\ scene.cells[p].clue = grid[p].info_type
        /\ DOMAIN scene.columns = {p \in DOMAIN grid : IsColumnHint(grid, p)}
        /\ \A p \in DOMAIN scene.columns :
              /\ scene.columns[p].direction = hints[grid[p].id].direction
              /\ scene.columns[p].grouping =
                    (IF hints[grid[p].id].consecutive = "None" THEN "+"
                     ELSE hints[grid[p].id].consecutive)

\* C13: create_pattern completes without raising an error for every
\* configuration and every random outcome, the one where no non-Marked Cell
\* was spawned before the reveal step included.
C13_NoError == pc # "ValueError"

\* One step of solve_complete as the loop of generator.py:178-193 takes it.
\* Tier 1 (solve_simple) is re-run while a scan deduces something; solve_step
\* is entered from a scan that deduced nothing and left at once; when it
\* proved a Cell the loop is back at its top with solving = 1, and the next
\* step applies every recorded value to the display; when it proved nothing
\* the loop ends with the value "remaining == 0".
SolveLoopStep ==
    /\ pc = "solve_simple" =>
          /\ pc' \in {"solve_simple", "solve_step", "AssertionError"}
          /\ pc' = "solve_simple" => display' # display
    /\ (pc' = "solve_step" /\ pc # "solve_step") =>
          /\ pc = "solve_simple"
          /\ ~solve_simple(scene, St).progress
          /\ LET cons == Constraints(scene, display)
             IN \A i \in 1..Len(cons) : SimpleDeductions(cons[i], display) = Empty
          /\ display' = display
    /\ pc = "solve_step" => pc' \in {"solve_complete", "solved", "AssertionError"}
    /\ (pc = "solve_step" /\ pc' = "solve_complete") =>
          /\ \E p \in DOMAIN guess' :
                guess'[p] # "None" /\ guess[p] = "None" /\ display[p] = "unknown"
          /\ solving' = 1
    /\ (pc = "solve_complete" /\ pc' = "solve_simple") =>
          \A p \in DOMAIN guess : guess[p] # "None" => display'[p] = guess[p]
    /\ (pc = "solve_step" /\ pc' = "solved") =>
          /\ guess' = guess
          /\ solving' = 0
          /\ result' = (IF remaining = 0 THEN "True" ELSE "False")

\* C14 as stated: the steps of solve_complete are those of SolveLoopStep, and
\* Tier 2 (solve_step) is invoked only if some Cell is still unresolved.
C14_TierTwoOnlyWhenUnresolved ==
    [][/\ SolveLoopStep
       /\ (pc' = "solve_step" /\ pc # "solve_step") =>
              \E p \in DOMAIN display : display[p] = "unknown"]_vars

\* C14, amended: Tier 1 is repeated until one full scan yields no deduction;
\* solve_step is invoked then, once per outer iteration, whether or not a Cell
\* is still unresolved; if it proves a Cell the loop returns to Tier 1 with
\* the values applied to the display, otherwise the loop ends.
C14_SolveLoop == [][SolveLoopStep]_vars

\* solve_step has just proved a Cell that Tier 1 could not: the loop is back
\* at its top with a recorded value that is not yet on the display.
C14_Witness ==
    /\ pc = "solve_complete"
    /\ solving = 1
    /\ \E p \in DOMAIN guess : guess[p] # "None" /\ display[p] = "unknown"

\* solve_step is entered although every Cell is resolved.
C14_ResolvedWitness ==
    /\ pc = "solve_step"
    /\ DOMAIN display # {}
    /\ \A p \in DOMAIN display : display[p] # "unknown"

\* The states in which create_pattern has returned the level held in grid.
AfterCreatePattern ==
    pc \in {"is_solvable", "solve_complete", "solve_simple", "solve_step", "solved",
            "AssertionError", "remove_clue", "done"}

\* The Marked cells next to position p.
MarkedNeighbours(p) == {q \in Cells(grid) : Adjacent(p, q) /\ grid[q].is_blue}

\* C15: after create_pattern and in every later state, minimisation
\* included, the grouping clue of a non-Marked Cell is truthful: 'c' only with
\* two or more Marked neighbours that form one connected set, 'n' only with
\* two or more that do not; right after create_pattern a non-Marked Cell with
\* at most one Marked neighbour carries '+'; a Marked Cell never carries 'c'
\* or 'n'.
C15_GroupingTruthful ==
    AfterCreatePattern =>
        \A p \in Cells(grid) :
            LET marked == MarkedNeighbours(p)
                clue == grid[p].info_type
            IN /\ grid[p].is_blue => clue \notin {"c", "n"}
               /\ (~grid[p].is_blue /\ clue = "c") =>
                      Cardinality(marked) >= 2 /\ Connected(marked)
               /\ (~grid[p].is_blue /\ clue = "n") =>
                      Cardinality(marked) >= 2 /\ ~Connected(marked)
               /\ (pc = "is_solvable" /\ caller = "generate" /\ ~grid[p].is_blue
                      /\ Cardinality(marked) <= 1) => clue = "+"

\* minimize_clues is trying a clue on a level that has a non-Marked Cell with
\* the clue 'n'.
C15_Witness ==
    /\ pc = "is_solvable"
    /\ caller = "minimize"
    /\ \E p \in Cells(grid) : ~grid[p].is_blue /\ grid[p].info_type = "n"

\* The same with the clue 'c'.
C15_TogetherWitness ==
    /\ pc = "is_solvable"
    /\ caller = "minimize"
    /\ \E p \in Cells(grid) : ~grid[p].is_blue /\ grid[p].info_type = "c"

\* The Cells on the line of the hint with the given id, in line order from the
\* position the hint record holds.
LineOf(id) == get_hex_cells_in_line(grid, hints[id].x, hints[id].y, hints[id].direction)

\* The places of the Marked cells in a sequence of Cell positions.
MarkedPlaces(cells) == {k \in 1..Len(cells) : grid[cells[k]].is_blue}

C16_TogetherWitness ==
    /\ pc = "is_solvable"
    /\ \E i \in 1..Len(column_hints) :
          /\ hints[column_hints[i]].consecutive = "c"
          /\ Cardinality(MarkedPlaces(LineOf(column_hints[i]))) >= 2

\* Position p lies on the line of hint record h: the hint's position or any
\* number of direction deltas further.
OnLine(h, p) ==
    \E k \in 0..(GridSize - 1) :
        p = <<h.x + k * direction_deltas(h.direction)[1],
              h.y + k * direction_deltas(h.direction)[2]>>

\* Hint id is at no position of grid g.
NotInGrid(g, id) == \A p \in DOMAIN g : ~(IsColumnHint(g, p) /\ g[p].id = id)

\* One step of remove_random_column_hint: the draw of k, one discard, or
\* the end of its loop.
DiscardStep ==
    /\ (pc = "remove_random_column_hint" /\ pc' = "discard") =>
          /\ removenum' \in cfg.min_columns_removed..cfg.max_columns_removed
          /\ column_hints' = column_hints
          /\ grid' = grid
    /\ (pc = "remove_random_column_hint" /\ pc' = "recheck_hints") =>
          column_hints = <<>> /\ column_hints' = <<>> /\ grid' = grid
    /\ (pc = "discard" /\ pc' = "discard") =>
          /\ removenum > 0
          /\ removenum' = removenum - 1
          /\ \E i \in 1..Len(column_hints) :
                LET id == column_hints[i]
                IN /\ column_hints' =
                          SubSeq(column_hints, 1, i - 1)
                              \o SubSeq(column_hints, i + 1, Len(column_hints))
                   /\ NotInGrid(grid', id)
                   /\ \A p \in Cells(grid) : OnLine(hints[id], p) => p \notin DOMAIN grid'
                   /\ \A p \in Cells(grid') : ~OnLine(hints[id], p)
    /\ (pc = "discard" /\ pc' # "discard") =>
          /\ pc' = "recheck_hints"
          /\ removenum = 0 \/ column_hints = <<>>
          /\ column_hints' = column_hints
          /\ grid' = grid

\* C17: each discard of remove_random_column_hint removes the chosen hint
\* from the grid and from the hint list and clears every Cell on its line, so
\* that no Cell remains on the line from the hint's position; with k drawn in
\* min_columns_removed..max_columns_removed, one hint leaves the list per
\* iteration and the loop ends only after k iterations or with the list empty:
\* min(k, number of hints) hints are discarded.
C17_Discard == [][DiscardStep]_vars

\* A discard has just happened: a hint that left the list has no Cell on its
\* line while other Cells are still in the grid.
C17_Witness ==
    /\ pc = "discard"
    /\ Cells(grid) # {}
    /\ \E id \in 1..Len(hints) :
          /\ id \notin Range(column_hints)
          /\ NotInGrid(grid, id)
          /\ \A p \in Cells(grid) : ~OnLine(hints[id], p)

\* The loop ends with draws left because the list ran out.
C17_ExhaustedWitness ==
    /\ pc = "discard"
    /\ removenum > 0
    /\ hints # <<>>
    /\ column_hints = <<>>

\* The Cells on the line of hint id in level L.
CellsOnLine(L, id) ==
    get_hex_cells_in_line(L.grid, L.hints[id].x, L.hints[id].y, L.hints[id].direction)

\* What recheck_hints does to the hints of level L, giving level M.
RecheckEffect(L, M) ==
    /\ Range(M.column_hints) \subseteq Range(L.column_hints)
    /\ \A id \in Range(L.column_hints) :
          CellsOnLine(L, id) = <<>> =>
              id \notin Range(M.column_hints) /\ NotInGrid(M.grid, id)
    /\ count_clues(M) = count_clues(L) - (Len(L.column_hints) - Len(M.column_hints))
    /\ Len(L.column_hints) - Len(M.column_hints) >=
          Cardinality({i \in 1..Len(L.column_hints) :
                          CellsOnLine(L, L.column_hints[i]) = <<>>})
    /\ \A id \in Range(M.column_hints) : CellsOnLine(M, id) # <<>>

\* C18: recheck_hints deletes every hint whose line has no Cell from the
\* grid and from the hint list, each deletion lowering count_clues by one;
\* after it every hint left in the list has at least one Cell on its line.
C18_Recheck ==
    [][(pc = "recheck_hints" /\ pc' # "recheck_hints") => RecheckEffect(Lvl, Lvl')]_vars

\* recheck_hints has deleted a hint whose line had no Cell: at most one hint
\* was discarded, two listed hints with an empty line are gone, and hints
\* remain.
C18_Witness ==
    /\ pc = "set_black_cell_info_types"
    /\ cfg.max_columns_removed = 1
    /\ column_hints # <<>>
    /\ \E a, b \in 1..Len(hints) :
          /\ a # b
          /\ {a, b} \cap Range(column_hints) = {}
          /\ CellsOnLine(Lvl, a) = <<>>
          /\ CellsOnLine(Lvl, b) = <<>>

\* recheck_hints when its loop reaches the i-th entry of the hint list.
RecheckBefore(i) == RecheckScan(grid, hints, {}, SubSeq(column_hints, 1, i - 1))

\* The i-th entry is nudged: its line has a Cell.
IsNudged(i) ==
    LET b == RecheckBefore(i)
    IN get_hex_cells_in_line(b.grid, b.hints[column_hints[i]].x, b.hints[column_hints[i]].y,
                             b.hints[column_hints[i]].direction) # <<>>

\* The position k direction deltas ahead of hint record h.
Ahead(h, k) ==
    <<h.x + k * direction_deltas(h.direction)[1], h.y + k * direction_deltas(h.direction)[2]>>

\* The number of steps the nudge of the i-th entry takes, 0..3, or -1 when the
\* hint ends anywhere else.
NudgeSteps(i) ==
    LET b == RecheckBefore(i)
        id == column_hints[i]
        m == Nudge(b.grid, b.hints, id, 3)
        ks == {k \in 0..3 : <<m.hints[id].x, m.hints[id].y>> = Ahead(b.hints[id], k)}
    IN IF ks = {} THEN -1 ELSE CHOOSE k \in ks : TRUE

\* The nudge of the i-th entry of the hint list, as recheck_hints performs it;
\* final is the level recheck_hints returns.
NudgeOk(i, final) ==
    LET b == RecheckBefore(i)
        id == column_hints[i]
        h == b.hints[id]
        line == get_hex_cells_in_line(b.grid, h.x, h.y, h.direction)
        m == Nudge(b.grid, b.hints, id, 3)
        ks == {j \in 0..3 : <<m.hints[id].x, m.hints[id].y>> = Ahead(h, j)}
        k == CHOOSE j \in ks : TRUE
        next == Ahead(h, k + 1)
    IN line # <<>> =>
       /\ ks # {}
       /\ \A j \in 1..k : InBounds(Ahead(h, j)[1], Ahead(h, j)[2]) /\ IsNone(b.grid, Ahead(h, j))
       /\ m.removed <=>
             (k < 3 /\ InBounds(next[1], next[2]) /\ IsColumnHint(m.grid, next))
       /\ m.removed => id \notin Range(final.column_hints) /\ NotInGrid(final.grid, id)
       /\ (~m.removed /\ k < 3) =>
             ~InBounds(next[1], next[2]) \/ IsHexCell(m.grid, next)
       /\ ~m.removed =>
             /\ id \in Range(final.column_hints)
             /\ InBounds(m.hints[id].x, m.hints[id].y)
             /\ m.hints[id].direction = h.direction
             /\ final.hints[id].x = m.hints[id].x /\ final.hints[id].y = m.hints[id].y
             /\ Cells(m.grid) = Cells(b.grid)
             /\ get_hex_cells_in_line(m.grid, m.hints[id].x, m.hints[id].y, h.direction) = line

\* C19: nudging in recheck_hints moves a hint at most 3 steps, each one
\* direction delta into a position that was empty; the hint stops at the
\* boundary or in front of a Cell, and is deleted from grid and hint list when
\* the next position holds another hint; in every state every listed hint's
\* position is inside the lattice, and the Cells on a surviving hint's line are
\* those it had before the move.
C19_Nudge ==
    /\ \A i \in 1..Len(column_hints) :
          column_hints[i] # None =>
              InBounds(hints[column_hints[i]].x, hints[column_hints[i]].y)
    /\ pc = "recheck_hints" =>
          LET final == recheck_hints(Lvl)
          IN \A i \in 1..Len(column_hints) : NudgeOk(i, final)

\* recheck_hints is about to move one hint by a step or more and to delete
\* another that runs into a hint.
C19_Witness ==
    /\ pc = "recheck_hints"
    /\ \E i \in 1..Len(column_hints) : IsNudged(i) /\ NudgeSteps(i) >= 1
    /\ \E i \in 1..Len(column_hints) :
          /\ IsNudged(i)
          /\ Nudge(RecheckBefore(i).grid, RecheckBefore(i).hints, column_hints[i], 3).removed

\* recheck_hints is about to move a hint by three steps and to leave it there
\* although the position ahead of it is empty.
C19_ThreeStepsWitness ==
    /\ pc = "recheck_hints"
    /\ \E i \in 1..Len(column_hints) :
          /\ IsNudged(i)
          /\ NudgeSteps(i) = 3
          /\ IsNone(recheck_hints(Lvl).grid, Ahead(RecheckBefore(i).hints[column_hints[i]], 4))

\* What add_column_hints does to level L, giving level M: nothing that was
\* in the grid changes; every hint of M's list is at an in-bounds position that
\* was empty, one of the three upward positions of a Cell, pointing at it.
AttachEffect(L, M) ==
    /\ \A p \in DOMAIN L.grid : p \in DOMAIN M.grid /\ M.grid[p] = L.grid[p]
    /\ Cells(M.grid) = Cells(L.grid)
    /\ Len(M.column_hints) = Len(L.column_hints) + (Len(M.hints) - Len(L.hints))
    /\ \A p \in DOMAIN M.grid \ DOMAIN L.grid :
          /\ IsColumnHint(M.grid, p)
          /\ \E i \in (Len(L.column_hints) + 1)..Len(M.column_hints) :
                M.column_hints[i] = M.grid[p].id
    /\ \A i \in (Len(L.column_hints) + 1)..Len(M.column_hints) :
          LET id == M.column_hints[i]
              h == M.hints[id]
              at == <<h.x, h.y>>
              target == Ahead(h, 1)
          IN /\ \A j \in 1..Len(M.column_hints) : j # i => M.column_hints[j] # id
             /\ InBounds(h.x, h.y)
             /\ IsNone(L.grid, at)
             /\ M.grid[at] = HintRef(id)
             /\ IsHexCell(L.grid, target)
             /\ \/ h.direction = "\\" /\ at = <<target[1] - 1, target[2] - 1>>
                \/ h.direction = "|" /\ at = <<target[1], target[2] - 2>>
                \/ h.direction = "/" /\ at = <<target[1] + 1, target[2] - 1>>
             /\ h.consecutive = "None"
             /\ CellsOnLine(M, id) # <<>>
             /\ Head(CellsOnLine(M, id)) = target

\* C20: add_column_hints never overwrites an occupant: every hint it creates
\* is at an in-bounds position that was empty, at (x-1, y-1) with direction
\* '\', (x, y-2) with '|' or (x+1, y-1) with '/' of a Cell (x, y), so that the
\* first step along its direction reaches that Cell and its line has a Cell;
\* all Cells are left unchanged.
C20_Attach ==
    [][(pc = "add_column_hints" /\ pc' # "add_column_hints") => AttachEffect(Lvl, Lvl')]_vars

\* add_column_hints has attached hints and skipped an occupied position: a
\* Cell has its '\' hint while the position two rows above it holds a Cell.
C20_Witness ==
    /\ pc = "remove_random_column_hint"
    /\ column_hints # <<>>
    /\ \E p \in Cells(grid) :
          /\ IsHexCell(grid, <<p[1], p[2] - 2>>)
          /\ IsColumnHint(grid, <<p[1] - 1, p[2] - 1>>)
          /\ hints[grid[<<p[1] - 1, p[2] - 1>>].id].direction = "\\"

\* ------------------------------------------------ get_line_cells on its own
\* The lower left corner of the grid: LineWidth columns, LineRows rows.
LineRegion == (0..(LineWidth - 1)) \X ((GridSize - LineRows)..(GridSize - 1))

\* Start positions: those of the corner and the ones left of it, outside
\* the grid.
LineStarts == (-1..(LineWidth - 1)) \X ((GridSize - LineRows)..(GridSize - 1))

\* The level with a black cell at every position of cells and a '|' hint at
\* every position of hs.
LineLevel(cells, hs) ==
    LET order == RowMajor(hs)
        id(p) == CHOOSE i \in 1..Len(order) : order[i] = p
    IN Level([p \in cells \cup hs |->
                 IF p \in cells THEN HexCell(FALSE, "+") ELSE HintRef(id(p))],
             [i \in 1..Len(order) |-> ColumnHint(order[i][1], order[i][2], "|")],
             [i \in 1..Len(order) |-> i])

InitLine ==
    /\ cfg \in AliasConfigs
    /\ pc = "get_line_cells"
    /\ attempt = 0
    /\ \E S \in SUBSET LineRegion :
          /\ Cardinality(S) <= MaxOccupied
          /\ \E cells \in SUBSET S :
                LET L == LineLevel(cells, S \ cells)
                IN /\ grid = L.grid
                   /\ hints = L.hints
                   /\ column_hints = L.column_hints
    /\ removenum = 0
    /\ clues = <<>>
    /\ ci = 0
    /\ backup = [hint |-> None]
    /\ scene = NoScene
    /\ display = Empty
    /\ guess = Empty
    /\ remaining = 0
    /\ solving = 0
    /\ caller = "generate"
    /\ result = "None"
    /\ positions = {}
    /\ is_grouped = "None"
    /\ \E start \in LineStarts, direction \in {"\\", "|", "/"} :
          line_call = [x |-> start[1], y |-> start[2], direction |-> direction,
                       calls |-> 0, line_cells |-> <<>>, hex_cells |-> <<>>,
                       again |-> <<>>]
    /\ original = Level(Empty, <<>>, <<>>)

\* level.get_line_cells(x, y, direction) and
\* level.get_hex_cells_in_line(x, y, direction).
GetLineCells ==
    /\ pc = "get_line_cells"
    /\ line_call' = [line_call EXCEPT
          !.calls = 1,
          !.line_cells = get_line_cells(grid, line_call.x, line_call.y, line_call.direction),
          !.hex_cells = get_hex_cells_in_line(grid, line_call.x, line_call.y,
                                              line_call.direction)]
    /\ pc' = "called"
    /\ UNCHANGED <<cfg, attempt, levelVars, removenum, minVars, sceneVars, caller,
                   result, positions, is_grouped, original>>

\* The same two calls once more.
GetLineCellsAgain ==
    /\ pc = "called"
    /\ line_call' = [line_call EXCEPT
          !.calls = 2,
          !.again = <<get_line_cells(grid, line_call.x, line_call.y, line_call.direction),
                      get_hex_cells_in_line(grid, line_call.x, line_call.y,
                                            line_call.direction)>>]
    /\ pc' = "called again"
    /\ UNCHANGED <<cfg, attempt, levelVars, removenum, minVars, sceneVars, caller,
                   result, positions, is_grouped, original>>

NextLine == GetLineCells \/ GetLineCellsAgain

SpecLine == InitLine /\ [][NextLine]_vars

\* The position k direction deltas from the start of the call.
LineAt(k) ==
    <<line_call.x + k * direction_deltas(line_call.direction)[1],
      line_call.y + k * direction_deltas(line_call.direction)[2]>>

\* The steps k the walk makes before it leaves the grid.
LineSteps ==
    {k \in 0..GridSize : \A j \in 0..k : InBounds(LineAt(j)[1], LineAt(j)[2])}

\* Sequence r lists the positions LineAt(k), k in ks, in increasing k.
ListsInOrder(r, ks) ==
    /\ Len(r) = Cardinality(ks)
    /\ \A k \in ks : r[Cardinality({j \in ks : j < k}) + 1] = LineAt(k)

\* C21: for a fixed grid, start and direction get_line_cells returns the
\* occupied positions start + k * delta, k = 0, 1, 2, ..., in increasing k up
\* to the boundary, the start included when it is occupied and empty positions
\* skipped; get_hex_cells_in_line returns those of them that hold Cells, in
\* the same order; a second call returns the same sequences.
C21_LineCells ==
    pc \in {"called", "called again"} =>
        /\ ListsInOrder(line_call.line_cells,
                        {k \in LineSteps : ~IsNone(grid, LineAt(k))})
        /\ ListsInOrder(line_call.hex_cells,
                        {k \in LineSteps : IsHexCell(grid, LineAt(k))})
        /\ line_call.calls = 2 =>
              line_call.again = <<line_call.line_cells, line_call.hex_cells>>

\* Both calls were made from an occupied start, on a line with a hint between
\* two Cells and an empty position.
C21_Witness ==
    /\ pc = "called again"
    /\ line_call.calls = 2
    /\ Len(line_call.line_cells) = 3
    /\ Len(line_call.hex_cells) = 2
    /\ line_call.line_cells[1] = <<line_call.x, line_call.y>>
    /\ IsColumnHint(grid, line_call.line_cells[2])


\* minimize_clues is running or has returned the level.
InMinimize ==
    pc = "remove_clue" \/ caller = "minimize" \/ (pc = "done" /\ result = "level")

\* The LineHints the grid of level L shows: position, direction, grouping.
ShownHints(L) ==
    {<<p, L.hints[L.grid[p].id].direction, L.hints[L.grid[p].id].consecutive>> :
        p \in {q \in DOMAIN L.grid : IsColumnHint(L.grid, q)}}

\* The clues the grid of level L shows: clued Cells and LineHints.
ShownClues(L) ==
    ShownHints(L) \cup {<<p, L.grid[p].info_type>> :
                          p \in {q \in Cells(L.grid) : L.grid[q].info_type # "."}}

\* The Cell part of the frame of minimize_clues: the same Cells at the same
\* positions, kind and revealed flag as received, each clue the received
\* one or '.'; hint fields unchanged and the hint list only loses entries.
C22_CellFrame ==
    InMinimize =>
        /\ Cells(grid) = Cells(original.grid)
        /\ \A p \in Cells(grid) :
              /\ grid[p].is_blue = original.grid[p].is_blue
              /\ grid[p].revealed = original.grid[p].revealed
              /\ grid[p].info_type \in {original.grid[p].info_type, "."}
        /\ hints = original.hints
        /\ Len(column_hints) = Len(original.column_hints)
        /\ \A i \in 1..Len(column_hints) :
              column_hints[i] \in {None, original.column_hints[i]}

\* C22: minimize_clues changes only clue fields: Cells keep position, kind
\* and revealed flag and a clue is the received one or '.'; no LineHint is
\* added to the level or changes position, direction or grouping; the clues
\* of the level are at every moment a subset of the clues it was given.
C22_OnlyCluesRemoved ==
    InMinimize =>
        /\ C22_CellFrame
        /\ ShownHints(Lvl) \subseteq ShownHints(original)
        /\ ShownClues(Lvl) \subseteq ShownClues(original)


\* The clues minimize_clues enumerated, as a set.
Enumerated == {ClueList(original)[i] : i \in 1..Len(ClueList(original))}

\* The attempts of minimize_clues: their number is floor(n * ratio), they
\* are distinct enumerated clues, and attempt number ci removes clues[ci].
C23_Attempts ==
    InMinimize =>
        /\ Len(clues) = NumTries(cfg, Len(ClueList(original)))
        /\ \A i \in 1..Len(clues) : clues[i] \in Enumerated
        /\ \A i, j \in 1..Len(clues) : i # j => clues[i] # clues[j]
        /\ ci \in 1..(Len(clues) + 1)
        /\ pc = "done" => ci = Len(clues) + 1

\* What level L holds for a clue: a Cell's clue, or a listed hint with its
\* fields and whether the grid has it at the position it names.
Held(L, clue) ==
    IF clue[1] = "column"
    THEN LET id == L.column_hints[clue[2]]
         IN IF id = None THEN <<"None">>
            ELSE <<id, L.hints[id], ~NotInGrid(L.grid, id),
                   ~IsNone(L.grid, <<L.hints[id].x, L.hints[id].y>>)
                       /\ L.grid[<<L.hints[id].x, L.hints[id].y>>] = HintRef(id)>>
    ELSE <<L.grid[<<clue[2], clue[3]>>].info_type>>

\* C23: with n clues enumerated minimize_clues attempts floor(n * ratio)
\* removals of distinct clues in the order of the shuffle, and when it
\* returns every enumerated clue it did not attempt is held by the level
\* exactly as when it started.
C23_OnlyPrefixTouched ==
    /\ C23_Attempts
    /\ (pc = "done" /\ result = "level") =>
          \A clue \in Enumerated \ {clues[i] : i \in 1..Len(clues)} :
              Held(Lvl, clue) = Held(original, clue)


\* One column of up to RevealHeight rows with the default reveal_density
\* and with one cell in DenseReveal revealed, up to the return of
\* create_pattern.
RevealConfigs ==
    {[c EXCEPT !.height = h, !.reveal_density = d] :
        c \in TallConfigs, h \in 1..RevealHeight, d \in {RevealDensity, DenseReveal}}

InitReveal == InitWith(RevealConfigs)

SpecReveal == InitReveal /\ [][NextPattern]_vars

\* The Cells of the grid that are revealed.
Revealed(g) == {p \in Cells(g) : g[p].revealed}

\* The reveal step where it completes: the count and the kind of the cells
\* it marks.
C24_RevealWhenPossible ==
    /\ pc = "add_column_hints" =>
          Cardinality(Revealed(grid)) =
              Max2(1, Cardinality(NonBlue(grid)) \div cfg.reveal_density)
    /\ \A p \in Revealed(grid) : ~grid[p].is_blue

\* C24: when the reveal step of create_pattern is over, exactly
\* max(1, floor(n / reveal_density)) Cells are revealed, n the number of
\* non-Marked Cells spawned, and in no state is a Marked Cell revealed.
C24_RevealCount ==
    /\ pc \in {"add_column_hints", "ValueError"} =>
          Cardinality(Revealed(grid)) =
              Max2(1, Cardinality(NonBlue(grid)) \div cfg.reveal_density)
    /\ \A p \in Revealed(grid) : ~grid[p].is_blue

\* Two Cells revealed by one reveal step.
C24_TwoRevealed == pc = "add_column_hints" /\ Cardinality(Revealed(grid)) = 2


\* The non-None entries of the hint list.
Listed == {i \in 1..Len(column_hints) : column_hints[i] # None}

\* C25: when create_pattern has returned and in every state during and
\* after minimize_clues, every non-None entry of column_hints is in the grid
\* at the position it names, every LineHint of the grid is an entry of
\* column_hints, and no hint occurs twice in the list.
C25_GridMatchesList ==
    AfterCreatePattern =>
        /\ \A i \in Listed :
              LET h == hints[column_hints[i]]
              IN /\ IsColumnHint(grid, <<h.x, h.y>>)
                 /\ grid[<<h.x, h.y>>] = HintRef(column_hints[i])
        /\ \A p \in DOMAIN grid :
              IsColumnHint(grid, p) => \E i \in Listed : column_hints[i] = grid[p].id
        /\ \A i, j \in Listed : i # j => column_hints[i] # column_hints[j]


\* The part of the consistency that does hold: the grid shows only listed
\* hints and the list holds no hint twice.
C25_GridHintsListed ==
    AfterCreatePattern =>
        /\ \A p \in DOMAIN grid :
              IsColumnHint(grid, p) => \E i \in Listed : column_hints[i] = grid[p].id
        /\ \A i, j \in Listed : i # j => column_hints[i] # column_hints[j]


\* generate has returned a level or None, or has raised.
C26_Halted == pc \in {"done", "ValueError", "AssertionError"}

\* generate runs on until it returns or raises: weak fairness of Next,
\* WF_vars(Next), written out as "no step is possible infinitely often, or a
\* step is taken infinitely often"; the states in which no step is possible
\* are those of C26_Halted.
Fairness == []<>C26_Halted \/ []<><<Next>>_vars

FairSpec == Init /\ [][Next]_vars /\ Fairness

\* The Cells whose display is Unknown.
UnknownCells(d) == {p \in DOMAIN d : d[p] = "unknown"}

\* The bounds of generate: patterns created, solvability checks made by
\* minimize_clues, and the solving counter outside solve_complete.
C26_Bounded ==
    /\ attempt <= cfg.max_attempts
    /\ caller = "minimize" =>
          (IF pc \in {"remove_clue", "done"} THEN ci - 1 ELSE ci)
              <= (Len(ClueList(original)) * cfg.clue_removal_ratio[1])
                     \div cfg.clue_removal_ratio[2]
    /\ pc \in {"generate", "solved", "remove_clue", "done"} => solving = 0

\* A continuing iteration of the loops of solve_complete: a Tier-1 scan that
\* is followed by another resolves a Cell that was Unknown; a solve_step that
\* sends the loop back to its top has proved a Cell that was Unknown, and the
\* confirm_guesses that follows resolves it; no Cell becomes Unknown again.
C26_Progress ==
    /\ (pc = "solve_simple" /\ pc' = "solve_simple") =>
          /\ UnknownCells(display') \subseteq UnknownCells(display)
          /\ UnknownCells(display') # UnknownCells(display)
    /\ (pc = "solve_step" /\ pc' = "solve_complete") =>
          \E p \in UnknownCells(display) : guess'[p] # "None"
    /\ (pc = "solve_complete" /\ pc' = "solve_simple"
            /\ \E p \in DOMAIN guess : guess[p] # "None") =>
          /\ UnknownCells(display') \subseteq UnknownCells(display)
          /\ UnknownCells(display') # UnknownCells(display)
    /\ (pc \in {"solve_complete", "solve_simple", "solve_step"}
            /\ pc' \in {"solve_complete", "solve_simple", "solve_step", "solved"}) =>
          UnknownCells(display') \subseteq UnknownCells(display)

\* C26: generate always terminates: it creates at most max_attempts
\* patterns, minimize_clues makes at most floor(n * clue_removal_ratio)
\* solvability checks, every continuing iteration of the Tier-1 loop and of
\* the outer loop of solve_complete resolves a Cell that was Unknown, and
\* solving is 0 whenever solve_complete has returned.
C26_Terminates ==
    /\ []C26_Bounded
    /\ [][C26_Progress]_vars
    /\ <>C26_Halted

\* generate has returned a level from its last attempt after a solvability
\* check of minimize_clues.
C26_Witness ==
    /\ pc = "done"
    /\ result = "level"
    /\ attempt = MaxAttempts
    /\ ci > 1
    /\ solving = 0

====
